---------------------------- MODULE Spec2Model ----------------------------
(***************************************************************************)
(* A model of schema.py (version 0.4.2): the validation engine             *)
(* Schema.validate, the combinators And / Or, the transform wrapper Use,   *)
(* the Optional key marker and the error type SchemaError.                 *)
(*                                                                         *)
(* Python objects are records.  A data value is                            *)
(*     [t |-> type name, n |-> number, a |-> text, kv |-> items]           *)
(* where kv holds the (key, value) pairs of a dict in insertion order, or  *)
(* the elements of a list / tuple (under the key None).  A schema          *)
(* description is a record                                                 *)
(*     [f, name, lit, args, items, err, awk, hasdef, def]                  *)
(* whose field f tells which Python object it is.                          *)
(***************************************************************************)
EXTENDS Integers, Sequences, FiniteSets, TLC

(***************************************************************************)
(* Bounds of the model.                                                    *)
(***************************************************************************)
\* the largest number of pairs of an input dict / elements of an input list
MaxPairs == 2
\* int(text) is modelled for the decimal numerals 0 .. MaxInt
MaxInt == 50

(***************************************************************************)
(* Python values.                                                          *)
(***************************************************************************)
NoneVal == [t |-> "NoneType", n |-> 0, a |-> "None", kv |-> <<>>]
TrueVal == [t |-> "bool", n |-> 1, a |-> "True", kv |-> <<>>]
FalseVal == [t |-> "bool", n |-> 0, a |-> "False", kv |-> <<>>]
IntVal(n) == [t |-> "int", n |-> n, a |-> "", kv |-> <<>>]
FloatVal(n) == [t |-> "float", n |-> n, a |-> "", kv |-> <<>>]
StrVal(s) == [t |-> "str", n |-> 0, a |-> s, kv |-> <<>>]
Pair(k, v) == [k |-> k, v |-> v]
DictVal(kv) == [t |-> "dict", n |-> 0, a |-> "", kv |-> kv]
SeqVal(t, elems) ==
    [t |-> t, n |-> 0, a |-> "", kv |-> [i \in 1..Len(elems) |-> Pair(NoneVal, elems[i])]]

IsNumber(v) == v.t \in {"int", "float", "bool"}

\* isinstance(data, T) for the builtin types (bool is a subclass of int)
IsInstance(v, name) ==
    \/ name = "object"
    \/ name = v.t
    \/ name = "int" /\ v.t = "bool"

\* bool(v)
Truthy(v) ==
    CASE v.t = "NoneType" -> FALSE
      [] IsNumber(v) -> v.n # 0
      [] v.t = "str" -> v.a # ""
      [] OTHER -> Len(v.kv) > 0

\* a == b for Python values: numbers compare by value whatever their type,
\* dicts compare as sets of pairs, lists and tuples element by element
RECURSIVE PyEq(_, _)
PyEq(x, y) ==
    IF IsNumber(x) /\ IsNumber(y) THEN x.n = y.n
    ELSE IF x.t # y.t THEN FALSE
    ELSE IF x.t = "dict" THEN
        /\ Len(x.kv) = Len(y.kv)
        /\ \A i \in 1..Len(x.kv) : \E j \in 1..Len(y.kv) :
              PyEq(x.kv[i].k, y.kv[j].k) /\ PyEq(x.kv[i].v, y.kv[j].v)
    ELSE IF x.t \in {"list", "tuple"} THEN
        /\ Len(x.kv) = Len(y.kv)
        /\ \A i \in 1..Len(x.kv) : PyEq(x.kv[i].v, y.kv[i].v)
    ELSE x.a = y.a

\* d[k] = v on the pair list of a dict: an equal key keeps its place (and the
\* key object first inserted), a new key is appended
DictSet(kv, k, v) ==
    IF \E i \in 1..Len(kv) : PyEq(kv[i].k, k)
    THEN [i \in 1..Len(kv) |-> IF PyEq(kv[i].k, k) THEN Pair(kv[i].k, v) ELSE kv[i]]
    ELSE Append(kv, Pair(k, v))

DictHas(kv, k) == \E i \in 1..Len(kv) : PyEq(kv[i].k, k)

DictGet(kv, k) == kv[CHOOSE i \in 1..Len(kv) : PyEq(kv[i].k, k)].v

RECURSIVE JoinStr(_, _)
\* sep.join(strs)
JoinStr(strs, sep) ==
    IF Len(strs) = 0 THEN ""
    ELSE IF Len(strs) = 1 THEN strs[1]
    ELSE strs[1] \o sep \o JoinStr(Tail(strs), sep)

\* repr(v)
RECURSIVE Repr(_)
Repr(v) ==
    CASE v.t = "int" -> ToString(v.n)
      [] v.t = "float" -> ToString(v.n) \o ".0"
      [] v.t = "str" -> "'" \o v.a \o "'"
      [] v.t = "dict" ->
            "{" \o JoinStr([i \in 1..Len(v.kv) |->
                      Repr(v.kv[i].k) \o ": " \o Repr(v.kv[i].v)], ", ") \o "}"
      [] v.t = "list" ->
            "[" \o JoinStr([i \in 1..Len(v.kv) |-> Repr(v.kv[i].v)], ", ") \o "]"
      [] v.t = "tuple" ->
            "(" \o JoinStr([i \in 1..Len(v.kv) |-> Repr(v.kv[i].v)], ", ")
                \o (IF Len(v.kv) = 1 THEN ",)" ELSE ")")
      [] OTHER -> v.a

(***************************************************************************)
(* Schema descriptions.                                                    *)
(***************************************************************************)
Desc(f) == [f |-> f, name |-> "", lit |-> NoneVal, args |-> <<>>, items |-> <<>>,
            err |-> NoneVal, awk |-> NoneVal, hasdef |-> FALSE, def |-> NoneVal]
\* a literal, compared with ==
Lit(v) == [Desc("lit") EXCEPT !.lit = v]
\* a type object: int, str, bool, dict, list, ...
Type(name) == [Desc("type") EXCEPT !.name = name]
\* a plain function used as a predicate
Callable(name) == [Desc("callable") EXCEPT !.name = name]
\* a dict schema: items are its (key schema, value schema) pairs in order
Dict(items) == [Desc("dict") EXCEPT !.items = items]
\* a list / tuple schema: args are its alternatives
Iterable(t, args) == [Desc(t) EXCEPT !.args = args]
\* Use(callable_, error=err)
UseObj(name, err) == [Desc("Use") EXCEPT !.name = name, !.err = err]
\* And(*args, **kw) and Or(*args, **kw): kw.get gives None for a keyword
\* that was not passed
AndObj(args, err, awk) == [Desc("And") EXCEPT !.args = args, !.err = err, !.awk = awk]
OrObj(args, err, awk) == [Desc("Or") EXCEPT !.args = args, !.err = err, !.awk = awk]
\* Schema(schema, error=None, allow_wrong_keys=True)
SchemaObj(s, err, awk) == [Desc("Schema") EXCEPT !.args = <<s>>, !.err = err, !.awk = awk]
\* Optional(schema) and Optional(schema, default=def)
OptionalObj(s) == [Desc("Optional") EXCEPT !.args = <<s>>, !.awk = TrueVal]
OptionalDefault(s, def) ==
    [Desc("Optional") EXCEPT !.args = <<s>>, !.awk = TrueVal, !.hasdef = TRUE, !.def = def]

\* the name a callable is reported under
_callable_str(name) == name

\* repr(s) of a schema description
RECURSIVE ReprD(_)
ReprD(s) ==
    CASE s.f = "lit" -> Repr(s.lit)
      [] s.f = "type" -> "<class '" \o s.name \o "'>"
      [] s.f = "callable" -> "<function " \o s.name \o ">"
      [] s.f = "dict" ->
            "{" \o JoinStr([i \in 1..Len(s.items) |->
                      ReprD(s.items[i].k) \o ": " \o ReprD(s.items[i].v)], ", ") \o "}"
      [] s.f = "list" ->
            "[" \o JoinStr([i \in 1..Len(s.args) |-> ReprD(s.args[i])], ", ") \o "]"
      [] s.f = "tuple" ->
            "(" \o JoinStr([i \in 1..Len(s.args) |-> ReprD(s.args[i])], ", ")
                \o (IF Len(s.args) = 1 THEN ",)" ELSE ")")
      [] s.f = "Use" -> "Use(<class '" \o s.name \o "'>)"
      [] OTHER ->
            s.f \o "(" \o JoinStr([i \in 1..Len(s.args) |-> ReprD(s.args[i])], ", ") \o ")"

(***************************************************************************)
(* SchemaError.                                                            *)
(***************************************************************************)
NoKeys == [some |-> FALSE, keys |-> <<>>]
SomeKeys(keys) == [some |-> TRUE, keys |-> keys]
NoSKeys == [some |-> FALSE, keys |-> {}]

\* SchemaError(autos, errors, missing_keys, invalid_keys, wrong_keys) as the
\* outcome of a validate call; autos and errors are already lists here, a
\* caller that passes a single message passes <<message>>
SchemaError(autos, errors, missing_keys, invalid_keys, wrong_keys) ==
    [ok |-> FALSE, val |-> NoneVal, autos |-> autos, errors |-> errors,
     missing_keys |-> missing_keys, invalid_keys |-> invalid_keys,
     wrong_keys |-> wrong_keys]

\* a validate call that returned val
Return(val) ==
    [ok |-> TRUE, val |-> val, autos |-> <<>>, errors |-> <<>>,
     missing_keys |-> NoSKeys, invalid_keys |-> NoKeys, wrong_keys |-> NoKeys]

RECURSIVE uniqFrom(_, _)
uniqFrom(seq, seen) ==
    IF Len(seq) = 0 THEN <<>>
    ELSE IF Head(seq) \in seen THEN uniqFrom(Tail(seq), seen)
    ELSE <<Head(seq)>> \o uniqFrom(Tail(seq), seen \cup {Head(seq)})

\* a faulty variant, for comparison: duplicates are kept
uniqKeepAll(seq) == seq

\* SchemaError.code's helper: removes duplicates while preserving the order
uniq(seq) == uniqFrom(seq, {})

\* (i for i in seq if i is not None)
NotNone(seq) == SelectSeq(seq, LAMBDA i : i # NoneVal)

\* the text of the messages (they are str objects)
Texts(seq) == [i \in 1..Len(seq) |-> seq[i].a]

\* SchemaError.code
code(err) ==
    LET a == uniq(NotNone(err.autos))
        e == uniq(NotNone(err.errors))
    IN IF Len(e) > 0 THEN JoinStr(Texts(e), "\n") ELSE JoinStr(Texts(a), "\n")

(***************************************************************************)
(* The six flavors of a schema description, src line 83.                   *)
(***************************************************************************)
COMPARABLE == 0
CALLABLE == 1
VALIDATOR == 2
TYPE == 3
DICT == 4
ITERABLE == 5

\* _priority(s)
_priority(s) ==
    IF s.f \in {"list", "tuple"} THEN ITERABLE
    ELSE IF s.f = "dict" THEN DICT
    ELSE IF s.f = "type" THEN TYPE
    ELSE IF s.f \in {"And", "Or", "Use", "Schema", "Optional"} THEN VALIDATOR
    ELSE IF s.f = "callable" THEN CALLABLE
    ELSE COMPARABLE

\* Schema._dict_key_priority(s), doubled: the code returns _priority + 0.5
\* for an Optional key, the model 2 * _priority + 1, which sorts the same
_dict_key_priority(s) ==
    IF s.f = "Optional" THEN 2 * _priority(s.args[1]) + 1 ELSE 2 * _priority(s)

RECURSIVE SortFrom(_, _)
SortFrom(items, left) ==
    IF left = {} THEN <<>>
    ELSE LET i == CHOOSE x \in left : \A y \in left :
                    \/ _dict_key_priority(items[x].k) < _dict_key_priority(items[y].k)
                    \/ /\ _dict_key_priority(items[x].k) = _dict_key_priority(items[y].k)
                       /\ x <= y
         IN <<i>> \o SortFrom(items, left \ {i})

\* a faulty variant, for comparison: the keys are tried in the order of the dict, unsorted
unsorted_skeys(items) == [p \in 1..Len(items) |-> p]

\* sorted(s, key=self._dict_key_priority): the positions of the schema's keys,
\* by priority; the sort is stable, keys of equal priority keep the dict's order
sorted_skeys(items) == SortFrom(items, 1..Len(items))

(***************************************************************************)
(* The functions the schemas of the model call.                            *)
(***************************************************************************)
Returned(v) == [raised |-> FALSE, val |-> v, exc |-> ""]
Raised(exc) == [raised |-> TRUE, val |-> NoneVal, exc |-> exc]

\* int(data)
PyInt(d) ==
    IF IsNumber(d) THEN Returned(IntVal(d.n))
    ELSE IF d.t = "str" THEN
        IF \E n \in 0..MaxInt : ToString(n) = d.a
        THEN Returned(IntVal(CHOOSE n \in 0..MaxInt : ToString(n) = d.a))
        ELSE Raised("ValueError(\"invalid literal for int() with base 10: "
                    \o Repr(d) \o "\")")
    ELSE Raised("TypeError(\"int() argument must be a string, a bytes-like object"
                \o " or a real number, not '" \o d.t \o "'\")")

\* callable_(data) for the functions of the model:
\*   int;  always = lambda x: True;  never = lambda x: False;
\*   positive = lambda x: x > 0
Apply(name, d) ==
    CASE name = "int" -> PyInt(d)
      [] name = "always" -> Returned(TrueVal)
      [] name = "never" -> Returned(FalseVal)
      [] OTHER ->
            IF IsNumber(d) THEN Returned(IF d.n > 0 THEN TrueVal ELSE FalseVal)
            ELSE Raised("TypeError(\"'>' not supported between instances of '"
                        \o d.t \o "' and 'int'\")")

\* Use.validate(data)
UseOutcome(u, d, r) ==
    IF ~r.raised THEN Return(r.val)
    ELSE SchemaError(
           <<StrVal(_callable_str(u.name) \o "(" \o Repr(d) \o ") raised " \o r.exc)>>,
           <<u.err>>, NoSKeys, NoKeys, NoKeys)

Use_validate(u, d) == UseOutcome(u, d, Apply(u.name, d))

(***************************************************************************)
(* Schema.validate and the combinators.                                    *)
(***************************************************************************)
\* the local x of the mapping branch: None, or the SchemaError caught last
XNone == [some |-> FALSE, err |-> Return(NoneVal)]
XSome(err) == [some |-> TRUE, err |-> err]

\* the state of the mapping branch between two input pairs
MapStart == [new |-> <<>>, coverage |-> {}, x |-> XNone, raised |-> FALSE,
             exc |-> Return(NoneVal)]

\* a faulty variant, for comparison: every schema key is required, Optional or not
RequiredAll(s) == 1..Len(s.items)

\* the positions of the schema keys that are not Optional
Required(s) == {i \in 1..Len(s.items) : s.items[i].k.f # "Optional"}

\* the positions of the Optional keys that carry a default
WithDefault(s) ==
    {i \in 1..Len(s.items) : s.items[i].k.f = "Optional" /\ s.items[i].k.hasdef}

\* the lexicographic order of the reprs of the input keys of the model
ReprOrder == <<"'a'", "'b'", "'z'">>
ReprRank(v) == CHOOSE i \in 1..Len(ReprOrder) : ReprOrder[i] = Repr(v)

RECURSIVE SortByRepr(_)
\* sorted(keys, key=repr) of a set of input keys
SortByRepr(keys) ==
    IF keys = {} THEN <<>>
    ELSE LET k == CHOOSE x \in keys : \A y \in keys : ReprRank(x) <= ReprRank(y)
         IN <<k>> \o SortByRepr(keys \ {k})

RECURSIVE ApplyDefaults(_, _, _)
\* for default in defaults: new[default.key] = default.default
ApplyDefaults(s, new, left) ==
    IF left = {} THEN new
    ELSE LET i == CHOOSE x \in left : \A y \in left : x <= y
             k == s.items[i].k
         IN ApplyDefaults(s, DictSet(new, k.args[1].lit, k.def), left \ {i})

RECURSIVE Schema_validate(_, _, _, _)
RECURSIVE AndFrom(_, _, _)
RECURSIVE OrFrom(_, _, _, _)
RECURSIVE ElemsFrom(_, _, _, _)
RECURSIVE TrySkeys(_, _, _, _, _, _, _)
RECURSIVE MapFrom(_, _, _, _, _, _)

\* one turn of And.validate's loop: the j-th sub-schema on the current data
AndStep(o, j, cur) == Schema_validate(o.args[j], o.err, o.awk, cur)

\* data = s.validate(data): r is the outcome of the j-th sub-schema
AndCont(o, j, r) == IF r.ok THEN AndFrom(o, j + 1, r.val) ELSE r

AndFrom(o, j, cur) ==
    IF j > Len(o.args) THEN Return(cur) ELSE AndCont(o, j, AndStep(o, j, cur))

\* And.validate(data)
And_validate(o, d) == AndFrom(o, 1, d)

\* one turn of Or.validate's loop: the j-th sub-schema on the original data
OrStep(o, j, d) == Schema_validate(o.args[j], o.err, o.awk, d)

\* x = SchemaError([], []), Or.validate's x before the loop
OrStart == SchemaError(<<>>, <<>>, NoSKeys, NoKeys, NoKeys)

\* Or.validate's raise after the loop; x is the failure caught last
OrRaise(o, x, d) ==
    SchemaError(<<StrVal(ReprD(o) \o " did not validate " \o Repr(d))>> \o x.autos,
                <<o.err>> \o x.errors, NoSKeys, NoKeys, NoKeys)

\* return s.validate(data), or x = _x: r is the outcome of the j-th sub-schema
OrCont(o, j, r, d) == IF r.ok THEN r ELSE OrFrom(o, j + 1, r, d)

OrFrom(o, j, x, d) ==
    IF j > Len(o.args) THEN OrRaise(o, x, d) ELSE OrCont(o, j, OrStep(o, j, d), d)

\* Or.validate(data)
Or_validate(o, d) == OrFrom(o, 1, OrStart, d)

\* s.validate(data) of an object with a validate method
Validator_validate(o, d) ==
    CASE o.f = "And" -> And_validate(o, d)
      [] o.f = "Or" -> Or_validate(o, d)
      [] o.f = "Use" -> Use_validate(o, d)
      [] OTHER -> Schema_validate(o.args[1], o.err, o.awk, d)

\* Schema.validate, flavor TYPE
ValidateType(s, e, d) ==
    IF IsInstance(d, s.name) THEN Return(d)
    ELSE SchemaError(<<StrVal(Repr(d) \o " should be instance of '" \o s.name \o "'")>>,
                     <<e>>, NoSKeys, NoKeys, NoKeys)

\* except SchemaError as x: raise SchemaError([None] + x.autos, [e] + x.errors)
Reraise(e, r) ==
    IF r.ok THEN r
    ELSE SchemaError(<<NoneVal>> \o r.autos, <<e>> \o r.errors, NoSKeys, NoKeys, NoKeys)

\* Schema.validate, flavor VALIDATOR
ValidateValidator(s, e, d) == Reraise(e, Validator_validate(s, d))

\* the outcome of the predicate: r is what s(data) did
CallableOutcome(f, e, d, r) ==
    IF r.raised
    THEN SchemaError(<<StrVal(f \o "(" \o Repr(d) \o ") raised " \o r.exc)>>,
                     <<e>>, NoSKeys, NoKeys, NoKeys)
    ELSE IF Truthy(r.val) THEN Return(d)
    ELSE SchemaError(<<StrVal(f \o "(" \o Repr(d) \o ") should evaluate to True")>>,
                     <<e>>, NoSKeys, NoKeys, NoKeys)

\* Schema.validate, flavor CALLABLE
ValidateCallable(s, e, d) == CallableOutcome(_callable_str(s.name), e, d, Apply(s.name, d))

\* Schema.validate, flavor COMPARABLE
ValidateComparable(s, e, d) ==
    IF PyEq(s.lit, d) THEN Return(d)
    ELSE SchemaError(<<StrVal(ReprD(s) \o " does not match " \o Repr(d))>>,
                     <<e>>, NoSKeys, NoKeys, NoKeys)

\* o = Or(*s, error=e): the element schema of an iterable schema
ElemOr(s, e) == OrObj(s.args, e, NoneVal)

\* r is the outcome of o.validate on element i
ElemsCont(o, d, i, done, r) ==
    IF r.ok THEN ElemsFrom(o, d, i + 1, Append(done, Pair(NoneVal, r.val))) ELSE r

\* type(data)(o.validate(d) for d in data), from element i on
ElemsFrom(o, d, i, done) ==
    IF i > Len(d.kv) THEN Return([d EXCEPT !.kv = done])
    ELSE ElemsCont(o, d, i, done, Or_validate(o, d.kv[i].v))

\* r is the outcome of the check of the container's type
IterableElems(s, e, d, r) == IF ~r.ok THEN r ELSE ElemsFrom(ElemOr(s, e), d, 1, <<>>)

\* Schema.validate, flavor ITERABLE
ValidateIterable(s, e, w, d) ==
    IterableElems(s, e, d, Schema_validate(Type(s.f), e, w, d))

\* what the inner loop of the mapping branch leaves: valid, the skey and nkey
\* it stopped at, nvalue, and the SchemaError it raised (raised, x)
NoMatch(order) ==
    [valid |-> FALSE, raised |-> FALSE,
     skey |-> IF Len(order) = 0 THEN 0 ELSE order[Len(order)],
     nkey |-> NoneVal, nvalue |-> NoneVal, x |-> Return(NoneVal)]

\* the key matched skey (rk): rv is the outcome of the value's schema
TryValue(skey, key, rk, rv) ==
    IF ~rv.ok
    THEN [valid |-> FALSE, raised |-> TRUE, skey |-> skey,
          nkey |-> rk.val, nvalue |-> NoneVal,
          x |-> [rv EXCEPT !.invalid_keys = SomeKeys(<<key>>)]]
    ELSE [valid |-> TRUE, raised |-> FALSE, skey |-> skey,
          nkey |-> rk.val, nvalue |-> rv.val, x |-> Return(NoneVal)]

\* rk is the outcome of the key schema at position p of the order
TryKey(s, e, w, key, value, order, p, rk) ==
    IF ~rk.ok THEN TrySkeys(s, e, w, key, value, order, p + 1)
    ELSE TryValue(order[p], key, rk, Schema_validate(s.items[order[p]].v, e, w, value))

\* the inner loop of the mapping branch, for skey in sorted_skeys, from
\* position p of the order on
TrySkeys(s, e, w, key, value, order, p) ==
    IF p > Len(order) THEN NoMatch(order)
    ELSE TryKey(s, e, w, key, value, order, p,
                Schema_validate(s.items[order[p]].k, e, w, key))

\* raise SchemaError(['Invalid value for key %r' % key] + x.autos, ...)
InvalidValue(e, key, x) ==
    SchemaError(<<StrVal("Invalid value for key " \o Repr(key))>> \o x.autos,
                <<e>> \o x.errors, NoSKeys, SomeKeys(<<key>>), NoKeys)

\* a faulty variant, for comparison: the failure of a value is kept in x and the loop goes on
MapIterEndStale(e, m, key, t) ==
    IF t.raised THEN [m EXCEPT !.x = XSome(t.x)]
    ELSE IF t.valid
    THEN [m EXCEPT !.new = DictSet(m.new, t.nkey, t.nvalue),
                   !.coverage = m.coverage \cup {t.skey}]
    ELSE IF t.skey # 0 /\ m.x.some
    THEN [m EXCEPT !.raised = TRUE, !.exc = InvalidValue(e, key, m.x.err)]
    ELSE m

\* the end of the loop body: t is what the inner loop left
MapIterEnd(e, m, key, t) ==
    IF t.raised THEN [m EXCEPT !.x = XSome(t.x), !.raised = TRUE, !.exc = t.x]
    ELSE IF t.valid
    THEN [m EXCEPT !.new = DictSet(m.new, t.nkey, t.nvalue),
                   !.coverage = m.coverage \cup {t.skey}]
    ELSE IF t.skey # 0 /\ m.x.some
    THEN [m EXCEPT !.raised = TRUE, !.exc = InvalidValue(e, key, m.x.err)]
    ELSE m

\* the body of the mapping branch's loop over data.items(), for one pair
MapIter(s, e, w, m, key, value) ==
    MapIterEnd(e, m, key, TrySkeys(s, e, w, key, value, sorted_skeys(s.items), 1))

\* the orders in which a set of n keys can be iterated
Orders(n) == {q \in [1..n -> 1..n] : \A a, b \in 1..n : q[a] = q[b] => a = b}

\* raise SchemaError('Missing keys: ' + s_missing_keys, e, missing_keys=...);
\* missing lists the positions of the missing keys in the order in which the
\* set missing_keys is iterated
MissingKeys(s, e, missing) ==
    SchemaError(
        <<StrVal("Missing keys: " \o
            JoinStr([i \in 1..Len(missing) |-> ReprD(s.items[missing[i]].k)], ", "))>>,
        <<e>>,
        [some |-> TRUE, keys |-> {s.items[missing[i]].k : i \in 1..Len(missing)}],
        NoKeys, NoKeys)

\* raise SchemaError('Wrong keys %s in %r' % (s_wrong_keys, data), e, wrong_keys=...)
WrongKeys(e, d, wrong) ==
    SchemaError(
        <<StrVal("Wrong keys " \o JoinStr([i \in 1..Len(wrong) |-> Repr(wrong[i])], ", ")
                 \o " in " \o Repr(d))>>,
        <<e>>, NoSKeys, NoKeys, SomeKeys(wrong))

\* set(data.keys()) - set(new.keys())
KeysLeftOut(d, new) ==
    {d.kv[i].k : i \in {j \in 1..Len(d.kv) : ~DictHas(new, d.kv[j].k)}}

\* the mapping branch after the loop: required keys, wrong keys, defaults.
\* Python iterates a set in an order of its own: order is the order in which
\* it iterates the keys of this schema (their positions)
MapFinish(s, e, w, d, m, order) ==
    IF ~(Required(s) \subseteq m.coverage)
    THEN MissingKeys(s, e, SelectSeq(order, LAMBDA c : c \in Required(s) \ m.coverage))
    ELSE IF ~Truthy(w) /\ Len(m.new) # Len(d.kv)
    THEN WrongKeys(e, d, SortByRepr(KeysLeftOut(d, m.new)))
    ELSE Return(DictVal(ApplyDefaults(s, m.new, WithDefault(s) \ m.coverage)))

MapFrom(s, e, w, d, i, m) ==
    IF m.raised THEN m.exc
    ELSE IF i > Len(d.kv) THEN MapFinish(s, e, w, d, m, sorted_skeys(s.items))
    ELSE MapFrom(s, e, w, d, i + 1, MapIter(s, e, w, m, d.kv[i].k, d.kv[i].v))

\* r is the outcome of the check that data is a dict
DictLoop(s, e, w, d, r) == IF ~r.ok THEN r ELSE MapFrom(s, e, w, d, 1, MapStart)

\* Schema.validate, flavor DICT
ValidateDict(s, e, w, d) == DictLoop(s, e, w, d, Schema_validate(Type("dict"), e, w, d))

\* Schema(s, error=e, allow_wrong_keys=w).validate(data)
Schema_validate(s, e, w, d) ==
    CASE _priority(s) = ITERABLE -> ValidateIterable(s, e, w, d)
      [] _priority(s) = DICT -> ValidateDict(s, e, w, d)
      [] _priority(s) = TYPE -> ValidateType(s, e, d)
      [] _priority(s) = VALIDATOR -> ValidateValidator(s, e, d)
      [] _priority(s) = CALLABLE -> ValidateCallable(s, e, d)
      [] OTHER -> ValidateComparable(s, e, d)

(***************************************************************************)
(* The schemas and the inputs of the model.                                *)
(***************************************************************************)
\* sequences of at most two elements of S
UpTo2(S) == {<<>>} \cup {<<x>> : x \in S} \cup {<<x, y>> : x \in S, y \in S}

\* sequences of at most MaxPairs elements of S
UpToMax(S) == UNION {[1..k -> S] : k \in 0..MaxPairs}

Bad == StrVal("bad!")

KeySchemas ==
    {Lit(StrVal("a")), Lit(StrVal("b")), OptionalObj(Lit(StrVal("a"))),
     OptionalDefault(Lit(StrVal("b")), IntVal(0)), Callable("always"), Type("str"),
     OptionalObj(Type("str"))}

SchemaItems ==
    {Pair(k, v) : k \in KeySchemas, v \in {Type("int"), Type("str")}}
        \cup {Pair(Type("str"), Type("bool"))}

\* the dict schemas: at most two keys, no key twice
DictSchemas == {Dict(items) : items \in {q \in UpTo2(SchemaItems) : Len(q) = 2 => q[1].k # q[2].k}}

\* the input dicts: string keys, no key twice
DictData ==
    {DictVal(kv) : kv \in
        {q \in UpToMax({Pair(StrVal(k), v) : k \in {"a", "b", "z"},
                                             v \in {IntVal(1), StrVal("x")}}) :
            \A i, j \in 1..Len(q) : i # j => q[i].k # q[j].k}}

Atoms == {IntVal(5), FloatVal(5), StrVal("42"), StrVal("x")}

A1 == DictVal(<<Pair(StrVal("a"), IntVal(1))>>)
A1Z == DictVal(<<Pair(StrVal("a"), IntVal(1)), Pair(StrVal("z"), IntVal(1))>>)
SchemaA == Dict(<<Pair(Lit(StrVal("a")), Type("int"))>>)

ListData ==
    {SeqVal("list", q) : q \in UpToMax({IntVal(5), StrVal("x"), A1, A1Z})}
        \cup {SeqVal("tuple", <<IntVal(5)>>), SeqVal("tuple", <<IntVal(5), StrVal("x")>>)}

\* the keyword arguments of a combinator: none, error=, allow_wrong_keys=
\* (And.__init__ asserts that at most one of the two is passed)
CombKw == {<<NoneVal, NoneVal>>, <<Bad, NoneVal>>, <<NoneVal, TrueVal>>, <<NoneVal, FalseVal>>}

CombArgs ==
    UpTo2({Type("int"), Type("str"), UseObj("int", NoneVal), Lit(IntVal(5)),
           SchemaObj(Type("int"), StrVal("inner!"), TrueVal), SchemaA})

Combinators ==
    {AndObj(a, kw[1], kw[2]) : a \in CombArgs, kw \in CombKw}
        \cup {OrObj(a, kw[1], kw[2]) : a \in CombArgs, kw \in CombKw}

\* the keyword arguments of a Schema
SchemaKw == {<<NoneVal, TrueVal>>, <<NoneVal, FalseVal>>, <<Bad, FalseVal>>}

IterSchemas ==
    {Iterable("list", a) : a \in UpTo2({Type("int"), Type("str"), SchemaA})}
        \cup {Iterable("tuple", <<Type("int")>>)}

LeafSchemas ==
    {Type("int"), Type("str"), Lit(IntVal(5)), Lit(StrVal("x")), Callable("always"),
     Callable("never"), Callable("positive"), UseObj("int", NoneVal),
     UseObj("int", StrVal("inner!")), SchemaObj(Type("int"), NoneVal, TrueVal),
     SchemaObj(SchemaA, NoneVal, TrueVal),
     OptionalObj(Lit(StrVal("x")))}

Wrap(S) == {SchemaObj(s, kw[1], kw[2]) : s \in S, kw \in SchemaKw}

\* the calls of the model: the object validate is called on, and its argument
Calls ==
    (Wrap(DictSchemas) \X (DictData \cup {IntVal(5)}))
        \cup (Combinators \X (Atoms \cup {A1, A1Z, DictVal(<<>>)}))
        \cup (Wrap(IterSchemas) \X (ListData \cup {IntVal(5)}))
        \cup (Wrap(LeafSchemas \cup {o \in Combinators : o.awk = NoneVal /\ Len(o.args) = 2})
                 \X (Atoms \cup {A1Z}))

(***************************************************************************)
(* The state: one call obj.validate(data) in progress, followed (when it   *)
(* returns) by a second call of the same object on the value returned.     *)
(***************************************************************************)
VARIABLES
    obj,      \* the object validate is called on: a Schema, an And or an Or
    data,     \* the argument of the call in progress
    pc,       \* "call", "dict", "and", "or", "done"
    m,        \* Schema.validate's mapping branch: new, coverage, x
    i,        \* the position in data.items() of the pair the loop is at
    j,        \* And / Or: the position of the sub-schema the loop is at
    cur,      \* And.validate's data
    x,        \* Or.validate's x
    result,   \* the outcome of the call: a value returned or a SchemaError
    calls,    \* how many calls were made
    first     \* the argument and the outcome of the first call

vars == <<obj, data, pc, m, i, j, cur, x, result, calls, first>>

Pending == Return(NoneVal)

Init ==
    /\ \E c \in Calls : obj = c[1] /\ data = c[2]
    /\ pc = "call"
    /\ m = MapStart
    /\ i = 1
    /\ j = 1
    /\ cur = NoneVal
    /\ x = OrStart
    /\ result = Pending
    /\ calls = 1
    /\ first = [data |-> NoneVal, result |-> Pending]

\* the wrapped description and the keywords of the Schema called
S == obj.args[1]
E == obj.err
W == obj.awk
Flavor == IF obj.f = "Schema" THEN _priority(S) ELSE -1

Finish(r) == result' = r /\ pc' = "done"

\* data = Schema(dict, ...).validate(data), then the locals of the mapping branch
EnterDict(r) ==
    IF r.ok
    THEN pc' = "dict" /\ m' = MapStart /\ i' = 1 /\ UNCHANGED result
    ELSE Finish(r) /\ UNCHANGED <<m, i>>

\* the loop body leaves the locals n: it raised, or the loop goes on
IterTo(n) ==
    /\ m' = n
    /\ IF n.raised
       THEN Finish(n.exc) /\ UNCHANGED i
       ELSE i' = i + 1 /\ UNCHANGED <<pc, result>>

\* a faulty variant, for comparison: the sub-schema's return value is dropped: a gate, not a pipeline
AndToGate(r) ==
    IF r.ok
    THEN cur' = cur /\ j' = j + 1 /\ UNCHANGED <<pc, result>>
    ELSE Finish(r) /\ UNCHANGED <<j, cur>>

\* And.validate's loop body: data = s.validate(data)
AndTo(r) ==
    IF r.ok
    THEN cur' = r.val /\ j' = j + 1 /\ UNCHANGED <<pc, result>>
    ELSE Finish(r) /\ UNCHANGED <<j, cur>>

\* a faulty variant, for comparison: x keeps the first failure instead of the last
OrToFirst(r) ==
    IF r.ok
    THEN Finish(r) /\ UNCHANGED <<j, x>>
    ELSE x' = (IF j = 1 THEN r ELSE x) /\ j' = j + 1 /\ UNCHANGED <<pc, result>>

\* Or.validate's loop body: return s.validate(data), except SchemaError: x = _x
OrTo(r) ==
    IF r.ok
    THEN Finish(r) /\ UNCHANGED <<j, x>>
    ELSE x' = r /\ j' = j + 1 /\ UNCHANGED <<pc, result>>

\* Schema.validate, the mapping branch up to the loop
CallDict ==
    /\ pc = "call" /\ Flavor = DICT
    /\ EnterDict(ValidateType(Type("dict"), E, data))
    /\ UNCHANGED <<obj, data, j, cur, x, calls, first>>

\* one pair of data.items()
DictIter ==
    /\ pc = "dict" /\ i <= Len(data.kv)
    /\ IterTo(MapIter(S, E, W, m, data.kv[i].k, data.kv[i].v))
    /\ UNCHANGED <<obj, data, j, cur, x, calls, first>>

\* the mapping branch after the loop
DictFinish ==
    /\ pc = "dict" /\ i > Len(data.kv)
    /\ \E order \in Orders(Len(S.items)) : Finish(MapFinish(S, E, W, data, m, order))
    /\ UNCHANGED <<obj, data, m, i, j, cur, x, calls, first>>

CallIterable ==
    /\ pc = "call" /\ Flavor = ITERABLE
    /\ Finish(ValidateIterable(S, E, W, data))
    /\ UNCHANGED <<obj, data, m, i, j, cur, x, calls, first>>

CallType ==
    /\ pc = "call" /\ Flavor = TYPE
    /\ Finish(ValidateType(S, E, data))
    /\ UNCHANGED <<obj, data, m, i, j, cur, x, calls, first>>

CallValidator ==
    /\ pc = "call" /\ Flavor = VALIDATOR
    /\ Finish(ValidateValidator(S, E, data))
    /\ UNCHANGED <<obj, data, m, i, j, cur, x, calls, first>>

CallCallable ==
    /\ pc = "call" /\ Flavor = CALLABLE
    /\ Finish(ValidateCallable(S, E, data))
    /\ UNCHANGED <<obj, data, m, i, j, cur, x, calls, first>>

CallComparable ==
    /\ pc = "call" /\ Flavor = COMPARABLE
    /\ Finish(ValidateComparable(S, E, data))
    /\ UNCHANGED <<obj, data, m, i, j, cur, x, calls, first>>

\* And.validate up to the loop
CallAnd ==
    /\ pc = "call" /\ obj.f = "And"
    /\ pc' = "and" /\ j' = 1 /\ cur' = data
    /\ UNCHANGED <<obj, data, m, i, x, result, calls, first>>

\* one sub-schema of And.validate's loop
AndNext ==
    /\ pc = "and" /\ j <= Len(obj.args)
    /\ AndTo(AndStep(obj, j, cur))
    /\ UNCHANGED <<obj, data, m, i, x, calls, first>>

AndReturn ==
    /\ pc = "and" /\ j > Len(obj.args)
    /\ Finish(Return(cur))
    /\ UNCHANGED <<obj, data, m, i, j, cur, x, calls, first>>

\* Or.validate up to the loop
CallOr ==
    /\ pc = "call" /\ obj.f = "Or"
    /\ pc' = "or" /\ j' = 1 /\ x' = OrStart
    /\ UNCHANGED <<obj, data, m, i, cur, result, calls, first>>

\* one sub-schema of Or.validate's loop
OrNext ==
    /\ pc = "or" /\ j <= Len(obj.args)
    /\ OrTo(OrStep(obj, j, data))
    /\ UNCHANGED <<obj, data, m, i, cur, calls, first>>

OrFail ==
    /\ pc = "or" /\ j > Len(obj.args)
    /\ Finish(OrRaise(obj, x, data))
    /\ UNCHANGED <<obj, data, m, i, j, cur, x, calls, first>>

\* the caller passes the value returned to validate again
Revalidate ==
    /\ pc = "done" /\ result.ok /\ calls = 1
    /\ first' = [data |-> data, result |-> result]
    /\ data' = result.val
    /\ calls' = 2
    /\ pc' = "call" /\ m' = MapStart /\ i' = 1 /\ j' = 1 /\ cur' = NoneVal
    /\ x' = OrStart /\ result' = Pending
    /\ UNCHANGED obj

Next ==
    \/ CallDict \/ DictIter \/ DictFinish
    \/ CallIterable \/ CallType \/ CallValidator \/ CallCallable \/ CallComparable
    \/ CallAnd \/ AndNext \/ AndReturn
    \/ CallOr \/ OrNext \/ OrFail
    \/ Revalidate

Spec == Init /\ [][Next]_vars

(***************************************************************************)
(* What the properties below speak of.                                     *)
(***************************************************************************)
Done == pc = "done"

\* the call in progress is Schema(<dict>).validate(<dict>)
DictCall == Flavor = DICT /\ data.t = "dict"

\* the call is in the loop over data.items(), at a pair
AtPair == pc = "dict" /\ i <= Len(data.kv)

\* the key schema at position c of the dict schema accepts the input key
Accepts(c, key) == Schema_validate(S.items[c].k, E, W, key).ok

\* the value schema at position c of the dict schema accepts the input value
AcceptsValue(c, value) == Schema_validate(S.items[c].v, E, W, value).ok

\* the rank of a key schema as the documentation states it, doubled:
\* literal < predicate < validator < type < mapping < container, and an
\* Optional key half a rank after the flavor it wraps
FlavorRank(k) ==
    CASE k.f = "lit" -> 0
      [] k.f = "callable" -> 2
      [] k.f \in {"And", "Or", "Use", "Schema"} -> 4
      [] k.f = "type" -> 6
      [] k.f = "dict" -> 8
      [] OTHER -> 10
KeyRank(k) == IF k.f = "Optional" THEN FlavorRank(k.args[1]) + 1 ELSE FlavorRank(k)

\* c comes before c2 among the candidates: a lower rank, or the same rank and
\* an earlier place in the schema
Before(c, c2) ==
    \/ KeyRank(S.items[c].k) < KeyRank(S.items[c2].k)
    \/ KeyRank(S.items[c].k) = KeyRank(S.items[c2].k) /\ c < c2

\* the candidate that decides the input key: the first that accepts it (0: none)
IsDecider(c, key) ==
    /\ Accepts(c, key)
    /\ \A c2 \in 1..Len(S.items) : Accepts(c2, key) => (c2 = c \/ Before(c, c2))
Decider(key) ==
    IF \E c \in 1..Len(S.items) : IsDecider(c, key)
    THEN CHOOSE c \in 1..Len(S.items) : IsDecider(c, key)
    ELSE 0

\* the schema keys (positions) that decide some input pair
Matched == {Decider(data.kv[q].k) : q \in 1..Len(data.kv)} \ {0}

\* the non-Optional schema keys no input pair matched
Uncovered == {c \in 1..Len(S.items) : S.items[c].k.f # "Optional"} \ Matched

\* the input keys no schema key accepts
Unmatched == {data.kv[q].k : q \in {r \in 1..Len(data.kv) : Decider(data.kv[r].k) = 0}}

SeqRange(q) == {q[k] : k \in 1..Len(q)}

AInt == Pair(Lit(StrVal("a")), Type("int"))
BDefault == OptionalDefault(Lit(StrVal("b")), IntVal(0))
\* {"a": int, Optional("b", default=0): int}
SchemaAB == Dict(<<AInt, Pair(BDefault, Type("int"))>>)
\* {"a": int, str: bool}
SchemaAStr == Dict(<<AInt, Pair(Type("str"), Type("bool"))>>)
\* {"b": int, Optional("b", default=0): int}
SchemaBB == Dict(<<Pair(Lit(StrVal("b")), Type("int")), Pair(BDefault, Type("int"))>>)
B1 == DictVal(<<Pair(StrVal("b"), IntVal(1))>>)
A1B0 == DictVal(<<Pair(StrVal("a"), IntVal(1)), Pair(StrVal("b"), IntVal(0))>>)
A1B1 == DictVal(<<Pair(StrVal("a"), IntVal(1)), Pair(StrVal("b"), IntVal(1))>>)
Plain(s) == SchemaObj(s, NoneVal, TrueVal)
Strict(s) == SchemaObj(s, NoneVal, FalseVal)

(***************************************************************************)
(* C1.  A dict schema on a dict in which no matched value fails: validate  *)
(* fails with MissingKeys exactly when a non-Optional schema key was       *)
(* matched by no input pair, missing_keys is then exactly the set of those *)
(* keys, and an Optional key is never in it.  {"a": int, Optional("b",     *)
(* default=0): int} returns {"a": 1, "b": 0} for {"a": 1}, {"a": 1,        *)
(* "b": 1} for {"a": 1, "b": 1}, and misses "a" for {}.                    *)
(***************************************************************************)
C1_MissingKeys ==
    (Done /\ DictCall /\ ~result.invalid_keys.some) =>
        /\ result.missing_keys.some <=> Uncovered # {}
        /\ result.missing_keys.some =>
              /\ ~result.ok
              /\ result.missing_keys.keys = {S.items[c].k : c \in Uncovered}
              /\ \A k \in result.missing_keys.keys : k.f # "Optional"
        /\ (obj = Plain(SchemaAB) /\ data = A1) => (result.ok /\ PyEq(result.val, A1B0))
        /\ (obj = Plain(SchemaAB) /\ data = A1B1) => (result.ok /\ PyEq(result.val, A1B1))
        /\ (obj = Plain(SchemaAB) /\ data = DictVal(<<>>)) =>
              result.missing_keys = [some |-> TRUE, keys |-> {Lit(StrVal("a"))}]

\* a call that missed a required key while an Optional key with a default
\* was not covered either
C1_Witness ==
    /\ Done /\ DictCall /\ obj = Plain(SchemaAB) /\ data = DictVal(<<>>)
    /\ result.missing_keys.some

(***************************************************************************)
(* C6.  Each input pair is decided by the first candidate, in ascending    *)
(* key priority, whose key schema accepts the key: when its value schema   *)
(* accepts the value the pair is stored and that candidate,                *)
(* and no other, joins the coverage; when it rejects the value, validate   *)
(* fails at once with invalid_keys = [key].  {"a": int, str: bool} on      *)
(* {"a": 1} stores the pair under the literal key "a", and then fails with *)
(* MissingKeys for the uncovered key str.                                  *)
(***************************************************************************)
DecidedBy(c, key, value) ==
    IF AcceptsValue(c, value)
    THEN /\ pc' = "dict" /\ i' = i + 1 /\ result' = result
         /\ m'.new = DictSet(m.new, key, value)
         /\ m'.coverage = m.coverage \cup {c}
    ELSE /\ pc' = "done" /\ ~result'.ok
         /\ result'.invalid_keys = SomeKeys(<<key>>)
         /\ m'.new = m.new /\ m'.coverage = m.coverage

PairStep(key, value) ==
    Decider(key) # 0 => DecidedBy(Decider(key), key, value)

C6_FirstCandidateDecides ==
    [][ /\ AtPair => PairStep(data.kv[i].k, data.kv[i].v)
        /\ (pc' = "done" /\ obj = Plain(SchemaAStr) /\ data = A1) =>
              /\ m'.new = A1.kv /\ m'.coverage = {1}
              /\ result'.missing_keys = [some |-> TRUE, keys |-> {Type("str")}] ]_vars

\* the pair of {"a": 1} was stored under the literal key, and str is missing
C6_Witness ==
    /\ Done /\ obj = Plain(SchemaAStr) /\ data = A1
    /\ m.coverage = {1} /\ result.missing_keys.some

\* C6 as first stated, its example: {"a": int, str: bool} returns {"a": 1}
\* for {"a": 1}
C6_Original ==
    (Done /\ obj = Plain(SchemaAStr) /\ data = A1) => (result.ok /\ PyEq(result.val, A1))

(***************************************************************************)
(* C10.  An input pair whose key no candidate accepts raises nothing by    *)
(* itself: the output and the coverage stay as they are and the loop goes  *)
(* on to the next pair, whatever came before it; x is set only by the      *)
(* failure that ends the call, so no "Invalid value for key" error is      *)
(* raised.                                                                 *)
(***************************************************************************)
Dropped ==
    /\ pc' = "dict" /\ i' = i + 1 /\ result' = result
    /\ m'.new = m.new /\ m'.coverage = m.coverage /\ ~m'.raised

C10_UnmatchedPairDropped ==
    [][ /\ (AtPair /\ Decider(data.kv[i].k) = 0) => Dropped
        /\ m'.x.some => (pc' = "done" /\ result' = m'.x.err)
        /\ \A q \in 1..Len(data.kv) :
              result'.autos # InvalidValue(E, data.kv[q].k, m'.x.err).autos ]_vars

\* an unmatched pair was passed over after a pair that was stored
C10_Witness ==
    /\ pc = "dict" /\ i = 3 /\ data = A1Z /\ obj = Strict(SchemaA)
    /\ m.new = A1.kv

(***************************************************************************)
(* C2.  Key schemas that return the key unchanged, every required key      *)
(* covered, no matched value failing: with allow_wrong_keys=False validate *)
(* fails with WrongKeys exactly when some input key matched no schema key, *)
(* and wrong_keys is the set of those keys; with allow_wrong_keys=True the *)
(* call succeeds and the output holds every matched pair and no unmatched  *)
(* one.                                                                    *)
(***************************************************************************)
C2_Strict ==
    /\ result.wrong_keys.some <=> Unmatched # {}
    /\ result.wrong_keys.some => (~result.ok /\ SeqRange(result.wrong_keys.keys) = Unmatched)

C2_Allowing ==
    /\ result.ok
    /\ \A q \in 1..Len(data.kv) :
          IF Decider(data.kv[q].k) = 0 THEN ~DictHas(result.val.kv, data.kv[q].k)
          ELSE /\ DictHas(result.val.kv, data.kv[q].k)
               /\ PyEq(DictGet(result.val.kv, data.kv[q].k), data.kv[q].v)

C2_WrongKeys ==
    (Done /\ DictCall /\ ~result.invalid_keys.some /\ Uncovered = {}) =>
        IF Truthy(W) THEN C2_Allowing ELSE C2_Strict

(***************************************************************************)
(* C3.  A dict sub-schema of an And or an Or, and a dict alternative of a  *)
(* list schema, is validated under the wrong-key policy of the enclosing   *)
(* object, which is "allow" when allow_wrong_keys was not passed: Or({"a": *)
(* int}), And({"a": int}) and Schema([{"a": int}]) accept a dict with the  *)
(* extra key "z" and return it without "z".                                *)
(***************************************************************************)
PolicyOf(o) == IF o.awk = NoneVal THEN TrueVal ELSE o.awk

SameAs(r) == result.ok = r.ok /\ (r.ok => PyEq(result.val, r.val))

C3_PolicyPropagated ==
    (Done /\ calls = 1) =>
        /\ (obj.f \in {"And", "Or"} /\ obj.args = <<SchemaA>>) =>
              SameAs(Schema_validate(SchemaA, obj.err, PolicyOf(obj), data))
        /\ (obj \in {OrObj(<<SchemaA>>, NoneVal, NoneVal), AndObj(<<SchemaA>>, NoneVal, NoneVal)}
               /\ data = A1Z) => (result.ok /\ PyEq(result.val, A1))
        /\ (obj = Plain(Iterable("list", <<SchemaA>>)) /\ data = SeqVal("list", <<A1Z>>)) =>
              (result.ok /\ PyEq(result.val, SeqVal("list", <<A1>>)))

(***************************************************************************)
(* C4.  In a mapping validate that succeeds, every pair stored for an      *)
(* input pair is in the output with its validated value: no default takes  *)
(* its place, also when the schema holds a literal key k and               *)
(* Optional(k, default=d); and a default never covers a required key.      *)
(***************************************************************************)
C4_DefaultsOnlyForUnmatched ==
    (Done /\ DictCall /\ result.ok) =>
        /\ \A p \in 1..Len(m.new) :
              /\ DictHas(result.val.kv, m.new[p].k)
              /\ PyEq(DictGet(result.val.kv, m.new[p].k), m.new[p].v)
        /\ Required(S) \subseteq m.coverage

(***************************************************************************)
(* C5.  Idempotence: for a schema with no Use in it, when validate(x)      *)
(* returns y, validate(y) returns a value equal to y.                      *)
(***************************************************************************)
RECURSIVE Transforming(_)
Transforming(s) ==
    \/ s.f = "Use"
    \/ \E k \in 1..Len(s.args) : Transforming(s.args[k])
    \/ \E k \in 1..Len(s.items) : Transforming(s.items[k].k) \/ Transforming(s.items[k].v)

C5_Idempotent ==
    (Done /\ calls = 2 /\ ~Transforming(obj)) =>
        (result.ok /\ PyEq(result.val, first.result.val))

(***************************************************************************)
(* C7.  Or.validate tries its sub-schemas in the order listed, each on the *)
(* original data; it returns what the first one that succeeds returns and  *)
(* tries none after it; it fails exactly when all fail, with autos = the   *)
(* "did not validate" message followed by the autos of the last sub-schema *)
(* tried, and errors = its own error followed by the errors of that last   *)
(* one.  Or(int, str) returns 5 for 5 and "x" for "x", and fails for 5.0.  *)
(***************************************************************************)
Least(Q) == CHOOSE q \in Q : \A r \in Q : q <= r

\* the sub-schema at place k, under the error and the policy of the combinator
Sub(k, d) == Schema_validate(obj.args[k], obj.err, obj.awk, d)

OrAccepting == {k \in 1..Len(obj.args) : Sub(k, data).ok}

OrReturned(k) == result = Sub(k, data) /\ j = k

OrFailed(last) ==
    /\ j = Len(obj.args) + 1
    /\ result.autos =
          <<StrVal(ReprD(obj) \o " did not validate " \o Repr(data))>> \o last.autos
    /\ result.errors = <<obj.err>> \o last.errors
    /\ Len(result.autos) = Len(last.autos) + 1

OrLast == IF Len(obj.args) = 0 THEN OrStart ELSE Sub(Len(obj.args), data)

IntOrStr == OrObj(<<Type("int"), Type("str")>>, NoneVal, NoneVal)

C7_OrFirstSuccess ==
    (Done /\ obj.f = "Or") =>
        /\ result.ok <=> OrAccepting # {}
        /\ IF result.ok THEN OrReturned(Least(OrAccepting)) ELSE OrFailed(OrLast)
        /\ (obj = IntOrStr /\ data = IntVal(5)) => result = Return(IntVal(5))
        /\ (obj = IntOrStr /\ data = StrVal("x")) => result = Return(StrVal("x"))
        /\ (obj = IntOrStr /\ data = FloatVal(5)) => ~result.ok

\* Or(int, str) failed on 5.0 after both sub-schemas
C7_Witness ==
    /\ Done /\ obj = IntOrStr /\ data = FloatVal(5) /\ ~result.ok /\ j = 3
    /\ Len(result.autos) = 2

(***************************************************************************)
(* C8.  And.validate pipes the data through its sub-schemas in the order   *)
(* listed, each one given what the one before returned; it returns the     *)
(* composition (the data itself when there is no sub-schema) and fails     *)
(* with the failure of the first sub-schema that rejects what it is given, *)
(* calling none after it.  And(str, Use(int)) returns 42 for "42" and      *)
(* fails for "x".                                                          *)
(***************************************************************************)
RECURSIVE Piped(_, _)
PipedNext(k, prev) == IF prev.ok THEN Sub(k, prev.val) ELSE prev
\* the outcome of the first k sub-schemas on the data of the call
Piped(k, d) == IF k = 0 THEN Return(d) ELSE PipedNext(k, Piped(k - 1, d))

AndFailing == {k \in 1..Len(obj.args) : ~Piped(k, data).ok}

StrThenInt == AndObj(<<Type("str"), UseObj("int", NoneVal)>>, NoneVal, NoneVal)

C8_AndPipeline ==
    (Done /\ obj.f = "And") =>
        /\ result = Piped(Len(obj.args), data)
        /\ j = IF result.ok THEN Len(obj.args) + 1 ELSE Least(AndFailing)
        /\ Len(obj.args) = 0 => result = Return(data)
        /\ (obj = StrThenInt /\ data = StrVal("42")) => result = Return(IntVal(42))
        /\ (obj = StrThenInt /\ data = StrVal("x")) => ~result.ok

\* And(str, Use(int)) turned "42" into 42
C8_Witness ==
    /\ Done /\ obj = StrThenInt /\ data = StrVal("42") /\ result.val = IntVal(42)
    /\ j = 3

(***************************************************************************)
(* C9.  The text of a SchemaError: when errors holds an entry that is not  *)
(* None, the entries of errors that are not None, each once, in the order  *)
(* of their first occurrence, joined by newlines, and no auto message;     *)
(* otherwise the same of autos.  So a failure of an object whose only      *)
(* override is its own error="bad!" reads "bad!", so does a failure that   *)
(* came through the one level, at any depth, that carries "bad!", and a    *)
(* failure of an object with no override reads the autos, each once.       *)
(***************************************************************************)
FirstPlaces(seq) ==
    {k \in 1..Len(seq) : seq[k] # NoneVal /\ \A l \in 1..(k - 1) : seq[l] # seq[k]}

Nth(Q, p) == CHOOSE k \in Q : Cardinality({l \in Q : l <= k}) = p

\* the entries that are not None, each at its first occurrence
Once(seq) == [p \in 1..Cardinality(FirstPlaces(seq)) |-> seq[Nth(FirstPlaces(seq), p)].a]

Rendering(err) ==
    IF \E k \in 1..Len(err.errors) : err.errors[k] # NoneVal
    THEN JoinStr(Once(err.errors), "\n")
    ELSE JoinStr(Once(err.autos), "\n")

RECURSIVE HasOverride(_)
HasOverride(s) ==
    \/ s.err # NoneVal
    \/ \E k \in 1..Len(s.args) : HasOverride(s.args[k])
    \/ \E k \in 1..Len(s.items) : HasOverride(s.items[k].k) \/ HasOverride(s.items[k].v)

OnlyOwnOverride == obj.err = Bad /\ \A k \in 1..Len(obj.args) : ~HasOverride(obj.args[k])

\* the overrides carried at any level of s
RECURSIVE OverridesOf(_)
OverridesOf(s) ==
    ({s.err} \ {NoneVal})
        \cup UNION {OverridesOf(s.args[k]) : k \in 1..Len(s.args)}
        \cup UNION {OverridesOf(s.items[k].k) \cup OverridesOf(s.items[k].v) :
                       k \in 1..Len(s.items)}

\* the failure came through a level that carries an override
ThroughOverride == \E k \in 1..Len(result.errors) : result.errors[k] # NoneVal

C9_Rendering ==
    (Done /\ ~result.ok) =>
        /\ code(result) = Rendering(result)
        /\ OnlyOwnOverride => code(result) = "bad!"
        /\ (OverridesOf(obj) = {Bad} /\ ThroughOverride) => code(result) = "bad!"
        /\ ~HasOverride(obj) =>
              (code(result) = JoinStr(Once(result.autos), "\n") /\ code(result) # "")

\* a failure whose errors hold "bad!" twice and whose autos hold two messages
C9_Witness ==
    /\ Done /\ ~result.ok /\ OnlyOwnOverride
    /\ result.errors = <<Bad, Bad>> /\ Len(result.autos) = 2
    /\ code(result) = "bad!"

=============================================================================
